---- MODULE Spec2Model ----
(***************************************************************************)
(* Weather lookup application: the client search controller of             *)
(* src/main.js (the fetchSeq / isSearching revision, lines 1-537).         *)
(*                                                                         *)
(* Init is the first load of the page, with empty session and local        *)
(* storage.  Texts are sequences of one-character strings so that trim()   *)
(* and toLowerCase() are computed, not assumed.  A state is the browser    *)
(* state between two tasks of the event loop: every action is one event    *)
(* handler run to its first await, or the continuation of an await.        *)
(***************************************************************************)
EXTENDS Integers, Sequences, FiniteSets, TLC

(* ------------------------------ bounds -------------------------------- *)
MaxSeq == 2          \* lookups admitted in one behaviour
MaxData == 2         \* distinct weather snapshots the backend may answer
StartClock == 3000   \* Date.now() when the page loads
TickMs == 1500       \* granularity of the clock
MaxClock == 6500     \* last instant of the clock
ServerTickMs == 6000 \* granularity of the clock of a pending call
MaxElapsed == 18000  \* longest time a pending upstream call is followed
MaxFetches == 2      \* fetches issued by the geolocation revision in one behaviour
MaxRows == 2         \* rows of the searches table in one behaviour
MaxToggles == 2      \* POST /favorites/toggle requests in one behaviour
MaxFavClock == 1     \* last second of the store's clock
MaxSyncs == 2        \* renders that refresh the favourite button in one behaviour

(* ------------------------- program constants -------------------------- *)
DebounceMs == 3000
HistoryMax == 4
TimeoutMs == 12000
GeoHistoryMax == 5

(* ------------------------------- texts -------------------------------- *)
NoKey == << >>                            \* null / "" : never a valid key
ParisName == <<"P", "a", ",", " ", "F">>  \* display name "Pa, F"
TokyoName == <<"T", "o">>                 \* display name "To"
Places == {ParisName, TokyoName}
RawInputs == { <<" ">>, <<"P", "a", " ">>, <<"p", "b">>, <<" ", "T", "o">> }
\* every argument searchCity is ever called with: input.value or a card's city
Texts == RawInputs \cup Places \cup { << >> }
Data == 1..MaxData

LowerChar(c) ==
  CASE c = "P" -> "p"
    [] c = "T" -> "t"
    [] c = "F" -> "f"
    [] c = "A" -> "a"
    [] OTHER -> c

ToLowerCase(s) == [i \in DOMAIN s |-> LowerChar(s[i])]

RECURSIVE TrimStart(_)
TrimStart(s) == IF s # << >> /\ Head(s) = " " THEN TrimStart(Tail(s)) ELSE s

RECURSIVE TrimEnd(_)
TrimEnd(s) ==
  IF s # << >> /\ s[Len(s)] = " " THEN TrimEnd(SubSeq(s, 1, Len(s) - 1)) ELSE s

Trim(s) == TrimEnd(TrimStart(s))

NormalizeKey(city) == ToLowerCase(Trim(city))

Keys == {NormalizeKey(t) : t \in Texts} \ { << >> }

(* --------------------------- the backend ------------------------------ *)
\* GET /weather?city=key answers 200 with the place the geocoder resolves:
\* every spelling that starts with "p" is the same city.
Resolve(key) == IF key[1] = "p" THEN ParisName ELSE TokyoName

AbortError == [name |-> "AbortError", message |-> "The operation was aborted."]
TimeoutError == [name |-> "Error", message |-> "timeout"]
HttpError == [name |-> "Error", message |-> "Error 500: Internal Server Error"]
NetworkError == [name |-> "TypeError", message |-> "Failed to fetch"]
OfflineError ==
  [name |-> "Error", message |-> "Estas sin conexion. Verifica tu internet."]
QuotaError == [name |-> "QuotaExceededError", message |-> "The quota has been exceeded."]
FetchFailures == {TimeoutError, HttpError, NetworkError}

(* ------------------ the Weather Query Service: values ------------------ *)
\* JSON / JavaScript values the service handles: a string (a sequence of
\* characters), a number (in thousandths), NaN, or undefined / null.
Str(s) == [t |-> "str", s |-> s, n |-> 0]
Num(n) == [t |-> "num", s |-> << >>, n |-> n]
NaN == [t |-> "nan", s |-> << >>, n |-> 0]
Undefined == [t |-> "undefined", s |-> << >>, n |-> 0]

\* Boolean(v): "", 0, NaN, null and undefined are falsy.
Boolean(v) ==
  CASE v.t = "str" -> v.s # << >>
    [] v.t = "num" -> v.n # 0
    [] OTHER -> FALSE

DigitVal(c) ==
  CASE c = "0" -> 0 [] c = "1" -> 1 [] c = "2" -> 2 [] c = "3" -> 3 [] c = "4" -> 4
    [] c = "5" -> 5 [] c = "6" -> 6 [] c = "7" -> 7 [] c = "8" -> 8 [] c = "9" -> 9
    [] OTHER -> -1

DigitChar(d) == <<"0", "1", "2", "3", "4", "5", "6", "7", "8", "9">>[d + 1]

IsDigits(s) == \A i \in DOMAIN s : DigitVal(s[i]) >= 0

RECURSIVE ParseNat(_)
ParseNat(s) ==
  IF s = << >> THEN 0
  ELSE 10 * ParseNat(SubSeq(s, 1, Len(s) - 1)) + DigitVal(s[Len(s)])

RECURSIVE NatToStr(_)
NatToStr(n) ==
  IF n < 10 THEN <<DigitChar(n)>> ELSE NatToStr(n \div 10) \o <<DigitChar(n % 10)>>

\* Number(v) for the decimal texts of at most three fraction digits that
\* the model uses: "" is 0, a malformed text and undefined are NaN.
Number(v) ==
  CASE v.t = "num" -> v
    [] v.t = "nan" -> NaN
    [] v.t = "undefined" -> NaN
    [] OTHER ->
      LET s == Trim(v.s)
          neg == s # << >> /\ Head(s) = "-"
          body == IF neg THEN Tail(s) ELSE s
          dots == {i \in DOMAIN body : body[i] = "."}
          dot == IF dots = {} THEN Len(body) + 1 ELSE CHOOSE i \in dots : TRUE
          int == SubSeq(body, 1, dot - 1)
          frac == SubSeq(body, dot + 1, Len(body))
          pad == frac \o SubSeq(<<"0", "0", "0">>, 1, 3 - Len(frac))
      IN  IF s = << >> THEN Num(0)
          ELSE IF /\ Cardinality(dots) <= 1 /\ Len(frac) <= 3
                  /\ IsDigits(int) /\ IsDigits(frac) /\ Len(int) + Len(frac) > 0
               THEN Num((IF neg THEN -1 ELSE 1) * (1000 * ParseNat(int) + ParseNat(pad)))
               ELSE NaN

\* Variant: every value passes for a finite number.
IsFinite_Lenient(v) == TRUE

\* Number.isFinite(v)
IsFinite(v) == v.t = "num"

\* x.toFixed(2) of a finite number: two decimals, half rounded away from zero.
ToFixed2(x) ==
  LET a == IF x.n < 0 THEN -x.n ELSE x.n
      h == (a + 5) \div 10
  IN  (IF x.n < 0 THEN <<"-">> ELSE << >>) \o NatToStr(h \div 100) \o <<".">>
        \o <<DigitChar((h % 100) \div 10), DigitChar(h % 10)>>

\* `(${Number(lat).toFixed(2)}, ${Number(lon).toFixed(2)})`
CoordsPlace(lat, lon) ==
  <<"(">> \o ToFixed2(Number(lat)) \o <<",", " ">> \o ToFixed2(Number(lon)) \o <<")">>

RECURSIVE Join(_, _)
Join(parts, sep) ==
  IF parts = << >> THEN << >>
  ELSE IF Len(parts) = 1 THEN parts[1].s
  ELSE parts[1].s \o sep \o Join(Tail(parts), sep)

\* [name, admin1, country].filter(Boolean).join(", ")
placeFromParts(name, admin1, country) ==
  Str(Join(SelectSeq(<<name, admin1, country>>, Boolean), <<",", " ">>))

\* "e'" stands for the letter e with an acute accent: NFD splits it into the
\* letter and the combining mark, and the mark is removed.
StripChar(c) == IF c = "e'" THEN "e" ELSE c

stripAccents(s) == [i \in DOMAIN s |-> StripChar(s[i])]

\* raw.split(",")[0]
RECURSIVE BeforeComma(_)
BeforeComma(s) ==
  IF s = << >> \/ Head(s) = "," THEN << >> ELSE <<Head(s)>> \o BeforeComma(Tail(s))

\* Line 155: String(req.query.city || "").trim()
RawOf(city) == Trim(IF Boolean(city) THEN city.s ELSE << >>)

\* Variant: the whole text is taken, comma and all.
FirstOf_WholeText(raw) == raw

\* Line 159: raw.split(",")[0].trim()
FirstOf(raw) == Trim(BeforeComma(raw))

\* Lines 160-163.
Candidates(raw) ==
  LET first == FirstOf(raw)
      noAccents == stripAccents(first)
  IN  <<raw, first>>
        \o (IF ToLowerCase(noAccents) # ToLowerCase(first) THEN <<noAccents>> ELSE << >>)

\* A geocoder's answer to the handler: null, or coordinates and a place.
NullGeo == [some |-> FALSE, latitude |-> NaN, longitude |-> NaN, place |-> Undefined]

\* What a fetchJSON call settles with: the parsed body, or the error thrown.
NoData == [results |-> << >>]
Resolved(data) == [ok |-> TRUE, data |-> data, name |-> "", message |-> ""]
Rejected(name, message) == [ok |-> FALSE, data |-> NoData, name |-> name, message |-> message]

\* Bodies the providers may answer with.
OpenMeteoMatches ==
  { [latitude |-> Num(48857), longitude |-> Num(2352),
     name |-> Str(<<"P", "a">>), admin1 |-> Undefined, country |-> Str(<<"F">>)],
    [latitude |-> Num(37566), longitude |-> Num(126978),
     name |-> Str(<< >>), admin1 |-> Undefined, country |-> Undefined] }
OpenMeteoBodies == { [results |-> << >>] } \cup { [results |-> <<m>>] : m \in OpenMeteoMatches }
NominatimMatches ==
  { [lat |-> Str(<<"3", "5", ".", "6", "7", "6">>), lon |-> Str(<<"1", "3", "9", ".", "6", "5">>),
     display_name |-> Str(TokyoName)],
    [lat |-> Str(<<"-", "3", "4", ".", "6">>), lon |-> Str(<<"-", "5", "8", ".", "3", "8", "1">>),
     display_name |-> Undefined] }
NominatimBodies == { << >> } \cup { <<m>> : m \in NominatimMatches }
ForecastBodies == { [current |-> 1, daily |-> 1] }

\* Lines 71-89: the first result becomes the answer, everything else null.
geocodeOpenMeteo(out) ==
  IF out.ok /\ Len(out.data.results) > 0
  THEN LET m == out.data.results[1]
       IN  [some |-> TRUE, latitude |-> m.latitude, longitude |-> m.longitude,
            place |-> placeFromParts(m.name, m.admin1, m.country)]
  ELSE NullGeo

\* Lines 92-113.
geocodeFallbackNominatim(out) ==
  IF out.ok /\ Len(out.data) > 0
  THEN LET m == out.data[1]
       IN  [some |-> TRUE, latitude |-> Number(m.lat), longitude |-> Number(m.lon),
            place |-> m.display_name]
  ELSE NullGeo

\* Variant: a failure of the reverse geocoder leaves the place undefined.
reverseOpenMeteo_NoCoords(lat, lon, out) ==
  IF out.ok /\ Len(out.data.results) > 0
  THEN LET m == out.data.results[1] IN placeFromParts(m.name, m.admin1, m.country)
  ELSE Undefined

\* Lines 116-128.
reverseOpenMeteo(lat, lon, out) ==
  IF out.ok /\ Len(out.data.results) > 0
  THEN LET m == out.data.results[1] IN placeFromParts(m.name, m.admin1, m.country)
  ELSE Str(CoordsPlace(lat, lon))

\* The requests the service receives.
CityParams ==
  { Undefined, Str(<<" ">>), Str(<<"P", "a">>), Str(<<" ", "P", "a", ",", " ", "F">>),
    Str(<<"S", "e'">>) }
LatParams == { Undefined, Str(<<"-", "3", "4", ".", "6", "0", "7">>) }
LonParams == { Str(<<"x">>), Str(<<"1", ".", "2", "3", "4">>) }
Requests ==
  { [route |-> "/weather", city |-> c, lat |-> Undefined, lon |-> Undefined] : c \in CityParams }
    \cup { [route |-> "/weather/coords", city |-> Undefined, lat |-> a, lon |-> b] :
             a \in LatParams, b \in LonParams }
NoReq == [route |-> "", city |-> Undefined, lat |-> Undefined, lon |-> Undefined]

\* The pending fetchJSON call: waiting for the headers with the timer armed,
\* or reading the body with the timer cleared (line 65).
NoPending == [phase |-> "none", elapsed |-> 0]
NewCall == [phase |-> "headers", elapsed |-> 0]

ErrorBody(msg) ==
  [error |-> msg, place |-> Undefined, current |-> 0, daily |-> 0, lat |-> NaN, lon |-> NaN]
WeatherBody(pl, f, la, lo) ==
  [error |-> "", place |-> pl, current |-> f.current, daily |-> f.daily, lat |-> la, lon |-> lo]

(* ------------------------------- state -------------------------------- *)
VARIABLES
  fetchSeq,       \* state.fetchSeq
  isSearching,    \* state.isSearching
  lastQueryKey,   \* state.lastQueryKey (NoKey for null)
  lastRenderAt,   \* state.lastRenderAt
  unit,           \* state.unit
  cache,          \* the Map: key -> [place, data]
  controller,     \* the shared AbortController: 0 undefined, else the lookup that made it
  inflight,       \* network calls of searchCity issued and not yet settled
  view,           \* the panels #current / #daily
  status,         \* #status: text and class
  loading,        \* the loader
  history,        \* localStorage["city-history"]
  input,          \* input.value
  now,            \* Date.now()
  last,           \* history variable: the most recently admitted lookup
  lastCall,       \* history variable: key and verdict of the searchCity call just
                  \* made (nothing but network completions happened since)
  netCalls,       \* history variable: number of fetches issued by searchCity
  pc,             \* service: where the request handler is suspended
  req,            \* service: req.query of the request being handled
  qi,             \* service: position of the candidates loop
  geo,            \* service: the handler's geo
  revPlace,       \* service: the handler's place (GET /weather/coords)
  call,           \* service: the pending fetchJSON call
  calls,          \* service: history variable, the upstream calls of this request
  res,            \* service: the responses sent for this request
  searches,       \* service: the rows of the searches table
  hasSearched,    \* geolocation revision: hasSearched
  favorites,      \* store: the rows of the favorites table, in rowid order
  favSeq,         \* store: the last AUTOINCREMENT id given
  favClock,       \* store: CURRENT_TIMESTAMP, in seconds
  toggles,        \* store: the POST /favorites/toggle handlers
  favListed,      \* store: the last answer of GET /favorites
  favLog,         \* history variable: the handlers in the order they answered
  timers,         \* client: phase and age of the fetches followed step by step
  online,         \* environment: navigator.onLine, where connectivity is followed
  geoLatest,      \* history variable: how the lookup started last was served
  favBtn,         \* client: the favourite button (dataset, is-on, disabled, hidden);
                  \* counts of clicks and renders; lost: a request of it has failed
  favReqs         \* client: the favorites requests of the page that are outstanding

prog == <<fetchSeq, isSearching, lastQueryKey, lastRenderAt, unit, cache,
          controller, inflight, view, status, loading, history, input>>
env == <<now>>
ghost == <<last, lastCall, netCalls>>
server == <<pc, req, qi, geo, revPlace, call, calls, res, searches>>
favs == <<favorites, favSeq, favClock, toggles, favListed, favLog>>
notClient == <<server, hasSearched, geoLatest, favBtn, favReqs, favs, timers, online>>
notServer == <<prog, env, ghost, hasSearched, geoLatest, favBtn, favReqs, favs, timers, online>>
vars == <<prog, env, ghost, server, hasSearched, geoLatest, favBtn, favReqs, favs, timers, online>>

NoCall == [key |-> NoKey, verdict |-> "none"]

NoLookup ==
  [key |-> NoKey, result |-> "none", place |-> NoKey, data |-> 0, at |-> 0,
   net |-> FALSE]

Init ==
  /\ fetchSeq = 0
  /\ isSearching = FALSE
  /\ lastQueryKey = NoKey
  /\ lastRenderAt = 0
  /\ unit = "C"
  /\ cache = << >>
  /\ controller = 0
  /\ inflight = {}
  /\ view = [shown |-> FALSE, place |-> NoKey, data |-> 0]
  /\ status = [msg |-> "Escribi una ciudad y presiona Buscar.", type |-> "info"]
  /\ loading = FALSE
  /\ history = << >>
  /\ input = << >>
  /\ now = StartClock
  /\ last = NoLookup
  /\ lastCall = NoCall
  /\ netCalls = 0
  /\ pc = "idle"
  /\ req = NoReq
  /\ qi = 0
  /\ geo = NullGeo
  /\ revPlace = Undefined
  /\ call = NoPending
  /\ calls = << >>
  /\ res = << >>
  /\ searches = << >>
  /\ hasSearched = FALSE
  /\ favorites = << >>
  /\ favSeq = 0
  /\ favClock = 0
  /\ toggles = << >>
  /\ favListed = [status |-> 0, rows |-> << >>]
  /\ favLog = << >>
  /\ timers = << >>
  /\ online = TRUE
  /\ geoLatest = "none"
  /\ favBtn = [city |-> << >>, isOn |-> FALSE, disabled |-> FALSE, hidden |-> FALSE,
               clicks |-> 0, syncs |-> 0, lost |-> FALSE]
  /\ favReqs = {}

(* ------------------------------ helpers ------------------------------- *)
\* addToHistory: drop the case-insensitive duplicates, unshift, keep 4.
AddToHistory(list, city) ==
  LET Other(c) == ToLowerCase(c) # ToLowerCase(city)
      l == <<city>> \o SelectSeq(list, Other)
  IN  SubSeq(l, 1, IF Len(l) < HistoryMax THEN Len(l) ELSE HistoryMax)

\* Variant: the write is forgotten.
CacheSet_Skip(c, key, value) == c

\* cache.set(key, value)
CacheSet(c, key, value) ==
  [k \in (DOMAIN c) \cup {key} |-> IF k = key THEN value ELSE c[k]]

\* cache.has(key)
CacheHas(key) == key \in DOMAIN cache

\* controller.abort(): the signal of the previous lookup's fetch is aborted.
AbortInflight(reqs) ==
  {[r EXCEPT !.aborted = r.aborted \/ r.seq = controller] : r \in reqs}

\* setStatus(msg, type)
Status(msg, type) == [msg |-> msg, type |-> IF type = "error" THEN "error" ELSE "info"]

\* The DOM part of render(): panels shown and filled.  The favourite button
\* that render() also refreshes (lines 276-293) is no part of this state.
Rendered(place, data) == [shown |-> TRUE, place |-> place, data |-> data]

\* Variant: the guard never holds a call back.
ReentrancyGuard_Off == FALSE

\* if (state.isSearching) return;
ReentrancyGuard == isSearching

\* Variant: the comparison with the window is inverted.
DebounceGuard_Inverted(key) == lastQueryKey = key /\ now - lastRenderAt >= DebounceMs

\* state.lastQueryKey === key && Date.now() - state.lastRenderAt < 3000
DebounceGuard(key) == lastQueryKey = key /\ now - lastRenderAt < DebounceMs

(* --------------------------- searchCity ------------------------------- *)
\* Variant: the key is recorded before the guards are tested.
Drop_RecordsKey(key, why) ==
  /\ lastQueryKey' = key
  /\ UNCHANGED <<fetchSeq, isSearching, lastRenderAt, unit, cache, controller,
                 inflight, view, status, loading, history, input>>
  /\ UNCHANGED <<env, last, netCalls, notClient>>
  /\ lastCall' = [key |-> key, verdict |-> why]

\* A call that returns before touching anything.
Drop(key, why) ==
  /\ UNCHANGED <<prog, env, last, netCalls, notClient>>
  /\ lastCall' = [key |-> key, verdict |-> why]

\* Lines 415-426: the entry is rendered at once.  render() may throw at
\* sessionStorage.setItem (quota), after the panels were filled and before
\* lastRenderAt is set; nothing catches it on this path.
CacheHit(key, seq, ok) ==
  LET e == cache[key] IN
  /\ view' = Rendered(e.place, e.data)
  /\ UNCHANGED <<cache>>
  /\ IF ok
       THEN /\ lastRenderAt' = now
            /\ history' = AddToHistory(history, e.place)
            /\ status' = Status("", "info")
            /\ loading' = FALSE
            /\ isSearching' = FALSE
       ELSE /\ UNCHANGED <<lastRenderAt, history, status, loading>>
            /\ isSearching' = TRUE
  /\ inflight' = AbortInflight(inflight)
  /\ netCalls' = netCalls
  /\ last' = [key |-> key, result |-> IF ok THEN "ok" ELSE "threw",
              place |-> e.place, data |-> e.data,
              at |-> IF ok THEN now ELSE 0, net |-> FALSE]

\* Variant: the fetch is issued without holding the reentrancy guard.
IssueFetch_GuardNotHeld(key, seq) ==
  /\ isSearching' = FALSE
  /\ loading' = TRUE
  /\ status' = Status("Buscando...", "info")
  /\ inflight' = AbortInflight(inflight) \cup {[seq |-> seq, key |-> key, aborted |-> FALSE]}
  /\ netCalls' = netCalls + 1
  /\ UNCHANGED <<cache, view, lastRenderAt, history>>
  /\ last' = [key |-> key, result |-> "pending", place |-> NoKey, data |-> 0,
              at |-> 0, net |-> TRUE]

\* Lines 428-432: the fetch is issued and the handler suspends.
IssueFetch(key, seq) ==
  /\ isSearching' = TRUE
  /\ loading' = TRUE
  /\ status' = Status("Buscando...", "info")
  /\ inflight' = AbortInflight(inflight) \cup {[seq |-> seq, key |-> key, aborted |-> FALSE]}
  /\ netCalls' = netCalls + 1
  /\ UNCHANGED <<cache, view, lastRenderAt, history>>
  /\ last' = [key |-> key, result |-> "pending", place |-> NoKey, data |-> 0,
              at |-> 0, net |-> TRUE]

\* Variant: the epoch is restarted by every admitted lookup.
Admit_RestartSeq(key) ==
  /\ fetchSeq < MaxSeq
  /\ lastQueryKey' = key
  /\ fetchSeq' = 1
  /\ controller' = fetchSeq + 1
  /\ lastCall' = [key |-> key, verdict |-> "admitted"]
  /\ UNCHANGED <<unit, input, env, notClient>>
  /\ IF CacheHas(key)
       THEN CacheHit(key, fetchSeq + 1, TRUE) \/ CacheHit(key, fetchSeq + 1, FALSE)
       ELSE IssueFetch(key, fetchSeq + 1)

\* Lines 406-432: guard taken, epoch incremented, previous fetch aborted.
Admit(key) ==
  /\ fetchSeq < MaxSeq
  /\ lastQueryKey' = key
  /\ fetchSeq' = fetchSeq + 1
  /\ controller' = fetchSeq + 1
  /\ lastCall' = [key |-> key, verdict |-> "admitted"]
  /\ UNCHANGED <<unit, input, env, notClient>>
  /\ IF CacheHas(key)
       THEN CacheHit(key, fetchSeq + 1, TRUE) \/ CacheHit(key, fetchSeq + 1, FALSE)
       ELSE IssueFetch(key, fetchSeq + 1)

\* Variant: "latest wins", a call is admitted while another is in progress.
searchCity_LatestWins(city) ==
  LET key == NormalizeKey(city) IN
  IF key = NoKey THEN Drop(key, "empty")
  ELSE IF DebounceGuard(key) THEN Drop(key, "debounced")
  ELSE Admit(key)

\* Lines 397-459 up to the first await.
searchCity(city) ==
  LET key == NormalizeKey(city) IN
  IF key = NoKey THEN Drop(key, "empty")
  ELSE IF DebounceGuard(key) THEN Drop(key, "debounced")
  ELSE IF ReentrancyGuard THEN Drop(key, "busy")
  ELSE Admit(key)

(* ------------------- continuation of the awaited fetch ---------------- *)
\* Variant: the guard is released while the request stays outstanding.
Finally_RequestKept(r) ==
  /\ loading' = IF r.seq = fetchSeq THEN FALSE ELSE loading
  /\ isSearching' = FALSE
  /\ inflight' = inflight

\* finally { if (mySeq === state.fetchSeq) setLoading(false); isSearching = false }
Finally(r) ==
  /\ loading' = IF r.seq = fetchSeq THEN FALSE ELSE loading
  /\ isSearching' = FALSE
  /\ inflight' = inflight \ {r}

\* err.message || "Error en la busqueda"
Message(err) == IF err.message = "" THEN "Error en la busqueda" ELSE err.message

\* Variant: the catch hides the panels, as the older revision did.
Catch_HidePanels(err, panels) ==
  [status |-> IF err.name # "AbortError" THEN Status(Message(err), "error") ELSE status,
   view |-> [panels EXCEPT !.shown = FALSE]]

\* catch (err): everything but an AbortError is reported; the panels are
\* left as they are ("NO ocultamos current/daily").
Catch(err, panels) ==
  [status |-> IF err.name # "AbortError" THEN Status(Message(err), "error") ELSE status,
   view |-> panels]

\* fetchJSON's catch: when navigator.onLine reads false, the offline error
\* replaces whatever was thrown.
Thrown(err, onLine) == IF ~onLine THEN OfflineError ELSE err

\* Variant: the status line is not cleared after the render.
FetchOk_StatusKept(r, data, ok) ==
  /\ r \in inflight /\ ~r.aborted
  /\ LET place == Resolve(r.key)
         entry == [place |-> place, data |-> data]
     IN IF r.seq # fetchSeq
          THEN /\ UNCHANGED <<cache, view, lastRenderAt, history, status>>
               /\ last' = IF last.key = r.key /\ last.result = "pending"
                            THEN [last EXCEPT !.result = "discarded"] ELSE last
          ELSE /\ cache' = CacheSet(CacheSet(cache, r.key, entry), ToLowerCase(place), entry)
               /\ IF ok
                    THEN /\ view' = Rendered(place, data)
                         /\ lastRenderAt' = now
                         /\ history' = AddToHistory(history, place)
                         /\ status' = status
                    ELSE /\ UNCHANGED <<lastRenderAt, history>>
                         /\ view' = Catch(QuotaError, Rendered(place, data)).view
                         /\ status' = Catch(QuotaError, Rendered(place, data)).status
               /\ last' = [last EXCEPT !.result = IF ok THEN "ok" ELSE "threw",
                                       !.place = place, !.data = data,
                                       !.at = IF ok THEN now ELSE 0]
  /\ Finally(r)
  /\ UNCHANGED <<fetchSeq, lastQueryKey, unit, controller, input, env,
                 lastCall, netCalls, notClient>>

\* HTTP 200 with the resolved place and snapshot data.
FetchOk(r, data, ok) ==
  /\ r \in inflight /\ ~r.aborted
  /\ LET place == Resolve(r.key)
         entry == [place |-> place, data |-> data]
     IN IF r.seq # fetchSeq
          THEN /\ UNCHANGED <<cache, view, lastRenderAt, history, status>>
               /\ last' = IF last.key = r.key /\ last.result = "pending"
                            THEN [last EXCEPT !.result = "discarded"] ELSE last
          ELSE /\ cache' = CacheSet(CacheSet(cache, r.key, entry), ToLowerCase(place), entry)
               /\ IF ok
                    THEN /\ view' = Rendered(place, data)
                         /\ lastRenderAt' = now
                         /\ history' = AddToHistory(history, place)
                         /\ status' = Status("", "info")
                    ELSE /\ UNCHANGED <<lastRenderAt, history>>
                         /\ view' = Catch(QuotaError, Rendered(place, data)).view
                         /\ status' = Catch(QuotaError, Rendered(place, data)).status
               /\ last' = [last EXCEPT !.result = IF ok THEN "ok" ELSE "threw",
                                       !.place = place, !.data = data,
                                       !.at = IF ok THEN now ELSE 0]
  /\ Finally(r)
  /\ UNCHANGED <<fetchSeq, lastQueryKey, unit, controller, input, env,
                 lastCall, netCalls, notClient>>

\* The fetch rejects: timeout, network error, non-2xx answer, or abort.
FetchFail(r, err, onLine) ==
  /\ r \in inflight
  /\ IF r.aborted THEN err = AbortError ELSE err \in FetchFailures
  /\ view' = Catch(Thrown(err, onLine), view).view
  /\ status' = Catch(Thrown(err, onLine), view).status
  /\ Finally(r)
  /\ last' = IF r.seq = fetchSeq THEN [last EXCEPT !.result = "failed"] ELSE last
  /\ UNCHANGED <<fetchSeq, lastQueryKey, lastRenderAt, unit, cache, controller,
                 history, input, env, lastCall, netCalls, notClient>>

(* ------------------------------ events -------------------------------- *)
Type(text) ==
  /\ text \in RawInputs
  /\ input # text
  /\ input' = text
  /\ lastCall' = NoCall
  /\ UNCHANGED <<fetchSeq, isSearching, lastQueryKey, lastRenderAt, unit, cache,
                 controller, inflight, view, status, loading, history, env,
                 last, netCalls, notClient>>

Submit == searchCity(input)

HistoryClick == \E i \in DOMAIN history : searchCity(history[i])

\* unitCBtn / unitFBtn click: re-render the entry cached for input.value.
UnitClick(u) ==
  /\ u # unit
  /\ unit' = u
  /\ LET k == NormalizeKey(input) IN
     IF k \in DOMAIN cache
       THEN /\ view' = Rendered(cache[k].place, cache[k].data)
            /\ \E ok \in BOOLEAN : lastRenderAt' = IF ok THEN now ELSE lastRenderAt
       ELSE UNCHANGED <<view, lastRenderAt>>
  /\ lastCall' = NoCall
  /\ UNCHANGED <<fetchSeq, isSearching, lastQueryKey, cache, controller, inflight,
                 status, loading, history, input, env, last, netCalls, notClient>>

Tick ==
  /\ now + TickMs <= MaxClock
  /\ now' = now + TickMs
  /\ lastCall' = NoCall
  /\ UNCHANGED <<prog, last, netCalls, notClient>>

Respond ==
  \E r \in inflight, d \in Data : FetchOk(r, d, TRUE) \/ FetchOk(r, d, FALSE)

Reject ==
  \E r \in inflight, e \in FetchFailures \cup {AbortError}, onLine \in BOOLEAN :
    FetchFail(r, e, onLine)

Next ==
  \/ \E t \in RawInputs : Type(t)
  \/ Submit
  \/ HistoryClick
  \/ \E u \in {"C", "F"} : UnitClick(u)
  \/ Respond
  \/ Reject
  \/ Tick

Spec == Init /\ [][Next]_vars

(* --------------- fetchJSON of src/main.js, step by step ---------------- *)
\* A request that no step has followed yet awaits its headers, timer armed.
TimerOf(r) ==
  IF r.seq \in DOMAIN timers THEN timers[r.seq] ELSE [phase |-> "headers", elapsed |-> 0]

notTimers == <<prog, env, ghost, server, hasSearched, geoLatest, favBtn, favReqs, favs, online>>

\* Lines 113-115: the headers arrive in time, clearTimeout(timer), and a
\* status that is not ok throws.
ClientHeaders(r, okStatus, onLine) ==
  /\ r \in inflight /\ ~r.aborted
  /\ TimerOf(r).phase = "headers"
  /\ TimerOf(r).elapsed < TimeoutMs
  /\ IF okStatus
       THEN /\ timers' = [s \in DOMAIN timers \cup {r.seq} |->
                            IF s = r.seq THEN [TimerOf(r) EXCEPT !.phase = "body"]
                            ELSE timers[s]]
            /\ UNCHANGED notTimers
       ELSE FetchFail(r, HttpError, onLine)

\* Line 113: fetch rejects, with a network error or with the abort of the
\* controller.
ClientRejects(r, onLine) ==
  /\ r \in inflight
  /\ TimerOf(r).phase = "headers"
  /\ FetchFail(r, IF r.aborted THEN AbortError ELSE NetworkError, onLine)

\* Line 107: the timer fires while the headers are awaited.
ClientTimerFires(r, onLine) ==
  /\ r \in inflight /\ ~r.aborted
  /\ TimerOf(r).phase = "headers"
  /\ TimerOf(r).elapsed >= TimeoutMs
  /\ FetchFail(r, TimeoutError, onLine)

\* Line 116: res.json() resolves with the body; its rejection does not pass
\* through the catch of fetchJSON.
ClientBody(r, wellFormed) ==
  /\ r \in inflight
  /\ TimerOf(r).phase = "body"
  /\ IF r.aborted THEN FetchFail(r, AbortError, TRUE)
     ELSE IF wellFormed
       THEN \E d \in Data, ok \in BOOLEAN : FetchOk(r, d, ok)
       ELSE FetchFail(r, NetworkError, TRUE)

\* Time passes while a request is pending; an armed timer is due at
\* TimeoutMs.
ClientTick ==
  /\ inflight # {}
  /\ \A r \in inflight :
       TimerOf(r).elapsed < (IF TimerOf(r).phase = "headers" THEN TimeoutMs ELSE MaxElapsed)
  /\ timers' = [s \in {r.seq : r \in inflight} |->
                  LET t == TimerOf(CHOOSE r \in inflight : r.seq = s)
                  IN  [t EXCEPT !.elapsed =
                         IF t.phase = "headers" /\ t.elapsed + ServerTickMs > TimeoutMs
                           THEN TimeoutMs ELSE t.elapsed + ServerTickMs]]
  /\ now' = now + ServerTickMs
  /\ lastCall' = NoCall
  /\ UNCHANGED <<prog, last, netCalls, server, hasSearched, geoLatest, favBtn, favReqs, favs, online>>

\* The browser gains or loses its connection.
Connectivity ==
  /\ online' = ~online
  /\ UNCHANGED <<prog, env, ghost, server, hasSearched, geoLatest, favBtn, favReqs, favs, timers>>

TimedNext ==
  \/ \E t \in RawInputs : Type(t)
  \/ Submit
  \/ \E r \in inflight, okStatus \in BOOLEAN : ClientHeaders(r, okStatus, online)
  \/ \E r \in inflight : ClientRejects(r, online)
  \/ \E r \in inflight : ClientTimerFires(r, online)
  \/ \E r \in inflight, wellFormed \in BOOLEAN : ClientBody(r, wellFormed)
  \/ ClientTick
  \/ Connectivity

SpecTimed == Init /\ [][TimedNext]_vars

(* ---------------- the Weather Query Service: handlers ----------------- *)
\* The upstream call just settled is logged with what it gave the handler.
Logged(g) ==
  [calls EXCEPT ![Len(calls)].state = IF g.some THEN "matched" ELSE "failed",
                ![Len(calls)].result = g]

\* fetchJSON(url): the call is issued and the handler awaits it.
StartCall(log, provider, q, la, lo) ==
  /\ pc' = provider
  /\ call' = NewCall
  /\ calls' = Append(log, [provider |-> provider, q |-> q, lat |-> la, lon |-> lo,
                           state |-> "pending", result |-> NullGeo])

\* res.status(code).json(body): the handler is over.
Send(log, code, body) ==
  /\ pc' = "done"
  /\ call' = NoPending
  /\ calls' = log
  /\ res' = Append(res, [status |-> code, body |-> body])

\* Lines 150-163 and 209-220: a request arrives and runs to its first await.
Receive(r) ==
  /\ pc \in {"idle", "done"}
  /\ Len(searches) < MaxRows
  /\ req' = r
  /\ geo' = NullGeo
  /\ revPlace' = Undefined
  /\ UNCHANGED <<searches, notServer>>
  /\ IF r.route = "/weather"
       THEN LET raw == RawOf(r.city)
            IN  IF raw = << >>
                  THEN /\ qi' = 0
                       /\ pc' = "done" /\ call' = NoPending /\ calls' = << >>
                       /\ res' = <<[status |-> 400, body |-> ErrorBody("Falta ?city")]>>
                  ELSE /\ qi' = 1
                       /\ res' = << >>
                       /\ StartCall(<< >>, "primary", Candidates(raw)[1], NaN, NaN)
       ELSE LET lat == Number(r.lat)
                lon == Number(r.lon)
            IN  /\ qi' = 0
                /\ IF ~IsFinite(lat) \/ ~IsFinite(lon)
                     THEN /\ pc' = "done" /\ call' = NoPending /\ calls' = << >>
                          /\ res' = <<[status |-> 400, body |-> ErrorBody("Lat/Lon invalidos")]>>
                     ELSE /\ res' = << >>
                          /\ StartCall(<< >>, "reverse", << >>, lat, lon)

\* Variant: the loop over the candidates has no break.
AfterPrimary_NoBreak(g) ==
  LET raw == RawOf(req.city)
      keep == IF g.some THEN g ELSE geo
  IN  /\ UNCHANGED <<req, revPlace, res, searches, notServer>>
      /\ geo' = keep
      /\ IF qi < Len(Candidates(raw))
           THEN /\ qi' = qi + 1
                /\ StartCall(Logged(g), "primary", Candidates(raw)[qi + 1], NaN, NaN)
           ELSE /\ qi' = qi
                /\ IF keep.some
                     THEN StartCall(Logged(g), "forecast", << >>, keep.latitude, keep.longitude)
                     ELSE StartCall(Logged(g), "fallback", FirstOf(raw), NaN, NaN)

\* Lines 166-180: geocodeOpenMeteo(q) returned g for candidate number qi.
AfterPrimary(g) ==
  LET raw == RawOf(req.city)
  IN  /\ UNCHANGED <<req, revPlace, res, searches, notServer>>
      /\ IF g.some
           THEN /\ geo' = g
                /\ qi' = qi
                /\ StartCall(Logged(g), "forecast", << >>, g.latitude, g.longitude)
           ELSE /\ geo' = geo
                /\ IF qi < Len(Candidates(raw))
                     THEN /\ qi' = qi + 1
                          /\ StartCall(Logged(g), "primary", Candidates(raw)[qi + 1], NaN, NaN)
                     ELSE /\ qi' = qi
                          /\ StartCall(Logged(g), "fallback", FirstOf(raw), NaN, NaN)

\* Variant: the handler goes on to the forecast without a place.
NotFound_GoesOn(log) ==
  /\ UNCHANGED res
  /\ StartCall(log, "forecast", << >>, geo.latitude, geo.longitude)

\* Line 177: no geocoder found the place.
NotFound(log) == Send(log, 404, ErrorBody("Ciudad no encontrada"))

\* Variant: the fallback's answer is dropped.
AfterFallback_Dropped(g) ==
  /\ UNCHANGED <<req, qi, geo, revPlace, searches, notServer>>
  /\ NotFound(Logged(g))

\* Lines 173-180: geocodeFallbackNominatim(first) returned g.
AfterFallback(g) ==
  /\ UNCHANGED <<req, qi, revPlace, searches, notServer>>
  /\ IF g.some
       THEN /\ geo' = g
            /\ UNCHANGED res
            /\ StartCall(Logged(g), "forecast", << >>, g.latitude, g.longitude)
       ELSE /\ geo' = geo
            /\ NotFound(Logged(g))

\* Lines 220-221: reverseOpenMeteo returned the place p.
AfterReverse(p) ==
  /\ revPlace' = p
  /\ UNCHANGED <<req, qi, geo, res, searches, notServer>>
  /\ StartCall([calls EXCEPT ![Len(calls)].state = "settled"], "forecast", << >>,
               Number(req.lat), Number(req.lon))

\* Lines 201-205 and 225-229: the catch of the handler.
ErrorMessage(out) ==
  IF out.name = "AbortError" THEN "timeout"
  ELSE IF out.message = "" THEN "Error" ELSE out.message

\* Variant: a failed forecast is answered with an empty 200.
AfterForecast_Lenient(out, dbOk) ==
  LET log == [calls EXCEPT ![Len(calls)].state = IF out.ok THEN "settled" ELSE "failed"]
      f == IF out.ok THEN out.data ELSE [current |-> 0, daily |-> 0]
  IN  /\ UNCHANGED <<req, qi, geo, revPlace, notServer>>
      /\ IF req.route = "/weather"
           THEN /\ searches' = IF dbOk
                                 THEN Append(searches, [city |-> RawOf(req.city), place |-> geo.place,
                                                        lat |-> geo.latitude, lon |-> geo.longitude])
                                 ELSE searches
                /\ Send(log, 200, WeatherBody(geo.place, f, geo.latitude, geo.longitude))
           ELSE /\ UNCHANGED searches
                /\ Send(log, 200, WeatherBody(revPlace, f, Number(req.lat), Number(req.lon)))

\* Lines 180-205 and 221-229: fetchForecast settled with out; dbOk tells
\* whether the INSERT INTO searches succeeded (its failure is swallowed).
AfterForecast(out, dbOk) ==
  LET log == [calls EXCEPT ![Len(calls)].state = IF out.ok THEN "settled" ELSE "failed"]
  IN  /\ UNCHANGED <<req, qi, geo, revPlace, notServer>>
      /\ IF ~out.ok
           THEN /\ UNCHANGED searches
                /\ Send(log, 500, ErrorBody(ErrorMessage(out)))
           ELSE IF req.route = "/weather"
           THEN /\ searches' = IF dbOk
                                 THEN Append(searches, [city |-> RawOf(req.city), place |-> geo.place,
                                                        lat |-> geo.latitude, lon |-> geo.longitude])
                                 ELSE searches
                /\ Send(log, 200, WeatherBody(geo.place, out.data, geo.latitude, geo.longitude))
           ELSE /\ UNCHANGED searches
                /\ Send(log, 200, WeatherBody(revPlace, out.data, Number(req.lat), Number(req.lon)))

\* The awaited fetchJSON settles with out and the handler resumes.
Resume(out) ==
  CASE pc = "primary" -> AfterPrimary(geocodeOpenMeteo(out))
    [] pc = "fallback" -> AfterFallback(geocodeFallbackNominatim(out))
    [] pc = "reverse" -> AfterReverse(reverseOpenMeteo(req.lat, req.lon, out))
    [] pc = "forecast" -> \E dbOk \in BOOLEAN : AfterForecast(out, dbOk)

Bodies ==
  CASE pc = "primary" -> OpenMeteoBodies
    [] pc = "fallback" -> NominatimBodies
    [] pc = "reverse" -> OpenMeteoBodies
    [] pc = "forecast" -> ForecastBodies
    [] OTHER -> {}

\* Line 64: the headers arrive in time; line 65 clears the timer; line 66
\* throws when the status is not ok.
HeadersArrive(okStatus) ==
  /\ call.phase = "headers"
  /\ call.elapsed < TimeoutMs
  /\ IF okStatus
       THEN /\ call' = [call EXCEPT !.phase = "body"]
            /\ UNCHANGED <<pc, req, qi, geo, revPlace, calls, res, searches, notServer>>
       ELSE Resume(Rejected("Error", "HTTP 500"))

\* Line 64: fetch rejects (no route to the provider).
FetchRejects ==
  /\ call.phase = "headers"
  /\ Resume(Rejected("TypeError", "fetch failed"))

\* Line 56: the timer fires while the headers are awaited.
TimerFires ==
  /\ call.phase = "headers"
  /\ call.elapsed >= TimeoutMs
  /\ Resume(Rejected("Error", "timeout"))

\* Line 67: res.json() resolves with the parsed body, or rejects.
BodyArrives(wellFormed) ==
  /\ call.phase = "body"
  /\ IF wellFormed
       THEN \E data \in Bodies : Resume(Resolved(data))
       ELSE Resume(Rejected("SyntaxError", "Unexpected end of JSON input"))

\* Time passes while a call is pending; the timer is due at TimeoutMs.
ServerTick ==
  /\ call.phase # "none"
  /\ call.elapsed < (IF call.phase = "headers" THEN TimeoutMs ELSE MaxElapsed)
  /\ call' = [call EXCEPT !.elapsed =
                IF call.phase = "headers" /\ call.elapsed + ServerTickMs > TimeoutMs
                  THEN TimeoutMs ELSE call.elapsed + ServerTickMs]
  /\ UNCHANGED <<pc, req, qi, geo, revPlace, calls, res, searches, notServer>>

ServerNext ==
  \/ \E r \in Requests : Receive(r)
  \/ \E okStatus \in BOOLEAN : HeadersArrive(okStatus)
  \/ FetchRejects
  \/ TimerFires
  \/ \E wellFormed \in BOOLEAN : BodyArrives(wellFormed)
  \/ ServerTick

SpecServer == Init /\ [][ServerNext]_vars


(* ============================ properties ============================== *)
Settles(r) ==
  \/ \E d \in Data, ok \in BOOLEAN : FetchOk(r, d, ok)
  \/ \E e \in FetchFailures \cup {AbortError}, onLine \in BOOLEAN : FetchFail(r, e, onLine)

\* C1 as stated (Scenario B): lookup("Paris"), then lookup("Tokyo") before
\* Paris's network call resolves; once every call has settled the View
\* shows Tokyo's result.
C1_ViewShowsTokyo ==
  (/\ inflight = {}
   /\ lastCall.verdict = "busy"
   /\ last.net /\ last.result = "ok"
   /\ Resolve(lastCall.key) # Resolve(last.key))
  => (view.shown /\ view.place = Resolve(lastCall.key))

\* C1 amended: a searchCity call made while a network call is outstanding is
\* dropped (it changes nothing and issues no request), and when the
\* outstanding call is answered the View shows the result of the lookup that
\* issued it, not that of the later call.
C1_LaterCallDropped ==
  [][/\ (inflight # {} /\ <<prog, netCalls>>' # <<prog, netCalls>>)
          => \A city \in Texts : ~searchCity(city)
     /\ \A r \in inflight, d \in Data :
          (r \notin inflight' /\ FetchOk(r, d, TRUE))
            => (r.key = lastQueryKey /\ view' = Rendered(Resolve(lastQueryKey), d))
    ]_vars

C1_Witness ==
  /\ inflight = {}
  /\ lastCall.verdict = "busy"
  /\ last.net /\ last.result = "ok" /\ netCalls = 1
  /\ Resolve(lastCall.key) # Resolve(last.key)
  /\ view = Rendered(Resolve(last.key), last.data)

\* C2: a network completion changes the View, the status, the loader or the
\* cache only if the epoch its lookup captured equals state.fetchSeq; the
\* lookups still outstanding all carry the current epoch.
C2_AppliedOnlyWhenCurrent ==
  [][/\ \A r \in inflight :
          (<<view, status, loading, cache>>' # <<view, status, loading, cache>> /\ Settles(r))
            => r.seq = fetchSeq
     /\ \A r \in inflight' : r.seq = fetchSeq'
    ]_vars

C2_Witness ==
  /\ fetchSeq = 2 /\ netCalls = 2 /\ inflight = {}
  /\ last.result = "failed" /\ status.type = "error"

\* C3 as stated: when no lookup is being processed any more, isSearching is
\* false.
C3_GuardReleased == (inflight = {}) => ~isSearching

\* C4: at most one lookup network call is outstanding.
C4_AtMostOneOutstanding == Cardinality(inflight) <= 1

C4_Witness ==
  /\ Cardinality(inflight) = 1 /\ netCalls = 2
  /\ \A r \in inflight : r.seq = 2 /\ ~r.aborted

\* C5 as stated: a key whose most recent lookup did not resolve (it failed)
\* is not dropped by the debounce guard.
C5_FailedKeyNotDebounced ==
  \A k \in Keys :
    (~isSearching /\ last.key = k /\ last.result = "failed") => ~DebounceGuard(k)

C7_AtMostOneNetworkCall ==
  [][\A city \in Texts :
       (/\ last.key = NormalizeKey(city) /\ last.net
        /\ ~DebounceGuard(NormalizeKey(city))
        /\ searchCity(city))
       => netCalls' = netCalls
    ]_vars

\* C7 amended: if the first of two consecutive lookups of the same key
\* rendered successfully, the second one, made outside the debounce window,
\* is served from the cache: it shows the same place and data and issues no
\* network call.
C7_CacheIdempotent ==
  [][\A city \in Texts :
       (/\ last.result = "ok" /\ last.key = NormalizeKey(city)
        /\ ~DebounceGuard(NormalizeKey(city))
        /\ searchCity(city))
       => (/\ view' = Rendered(last.place, last.data)
           /\ fetchSeq' = fetchSeq + 1
           /\ UNCHANGED <<cache, inflight, netCalls>>)
    ]_vars

C7_Witness ==
  /\ fetchSeq = 2 /\ netCalls = 1 /\ inflight = {}
  /\ DOMAIN cache = {<<"t", "o">>}
  /\ last.key = <<"t", "o">> /\ last.result = "ok" /\ ~last.net
  /\ view = Rendered(TokyoName, cache[<<"t", "o">>].data)

\* C8: after a render, a lookup that fails (timeout, network error, non-2xx
\* answer) leaves the panels as they are and sets an error status.
C8_FailureKeepsView ==
  [][\A r \in inflight, e \in FetchFailures, onLine \in BOOLEAN :
       (view.shown /\ FetchFail(r, e, onLine))
         => (view' = view /\ status'.type = "error")
    ]_vars

C8_Witness ==
  /\ view.shown /\ view.place # Resolve(last.key)
  /\ last.result = "failed" /\ status.type = "error" /\ inflight = {}

\* C9 as stated: a value stored under a key is never overwritten.
C9_CacheImmutable ==
  [][\A k \in DOMAIN cache : k \in DOMAIN cache' /\ cache'[k] = cache[k]]_vars

\* C10 as stated: for every cached key, the lower-cased display name of its
\* place is cached too and maps to the same entry.
C10_DualKeyed ==
  \A k \in DOMAIN cache :
    /\ ToLowerCase(cache[k].place) \in DOMAIN cache
    /\ cache[ToLowerCase(cache[k].place)] = cache[k]

\* C11: state.fetchSeq never decreases; a searchCity call increases it by
\* exactly one when it is admitted and leaves it unchanged when it is
\* dropped; network completions, typing, unit toggles and the clock leave
\* it unchanged.
C11_EpochMonotonic ==
  [][/\ fetchSeq' \in {fetchSeq, fetchSeq + 1}
     /\ lastCall'.verdict # "admitted" => fetchSeq' = fetchSeq
     /\ (lastCall'.verdict = "admitted" /\ fetchSeq' = fetchSeq)
          => \A city \in Texts : ~searchCity(city)
     /\ fetchSeq' # fetchSeq
          => ~(Respond \/ Reject \/ Tick \/ (\E t \in RawInputs : Type(t))
                 \/ (\E u \in {"C", "F"} : UnitClick(u)))
    ]_vars

C11_Witness ==
  /\ fetchSeq = 2 /\ lastCall.verdict = "admitted" /\ inflight # {}
  /\ netCalls = 2 /\ unit = "F" /\ view.shown

(* --------- the geolocation revision of the page: src/unnamed/part_000 --------- *)
\* x.toFixed(3) of a finite number.
ToFixed3(x) ==
  LET a == IF x.n < 0 THEN -x.n ELSE x.n
      f == a % 1000
  IN  (IF x.n < 0 THEN <<"-">> ELSE << >>) \o NatToStr(a \div 1000) \o <<".">>
        \o <<DigitChar(f \div 100), DigitChar((f % 100) \div 10), DigitChar(f % 10)>>

\* `${lat.toFixed(3)},${lon.toFixed(3)}`.toLowerCase()
CoordsKey(lat, lon) == ToLowerCase(ToFixed3(lat) \o <<",">> \o ToFixed3(lon))

\* The positions the browser may report.
Positions == { [lat |-> Num(-34607), lon |-> Num(1234)] }

ConnectError == [name |-> "Error", message |-> "No se pudo conectar con el servidor."]

\* addToHistory: trimmed, empty ignored, duplicates dropped, newest first, 5 kept.
GeoAddToHistory(list, city) ==
  LET key == Trim(city)
      Other(c) == ToLowerCase(c) # ToLowerCase(key)
      l == <<key>> \o SelectSeq(list, Other)
  IN  IF key = << >> THEN list
      ELSE SubSeq(l, 1, IF Len(l) < GeoHistoryMax THEN Len(l) ELSE GeoHistoryMax)

\* Lines 110-114, the catch of fetchJSON: the offline message replaces
\* whatever was thrown, an abort or a timeout is rethrown, anything else
\* becomes the connection error.
GeoThrown(err, onLine) ==
  IF ~onLine THEN OfflineError
  ELSE IF err.name = "AbortError" \/ err.message = "timeout" THEN err
  ELSE ConnectError

\* Lines 471-477 and 506-515: the catch and finally of a lookup.
GeoCatch(r, err) ==
  /\ IF err.name = "AbortError"
       THEN UNCHANGED <<status, view>>
       ELSE /\ status' = Status(err.message, "error")
            /\ view' = IF r.kind = "city" \/ ~hasSearched
                         THEN [view EXCEPT !.shown = FALSE] ELSE view
  /\ loading' = FALSE
  /\ inflight' = inflight \ {r}
  /\ UNCHANGED <<cache, history>>

\* Lines 457-468 and 497-505: the answer is cached under both keys and shown.
GeoApply(r, pl, data) ==
  LET entry == [place |-> pl, data |-> data]
  IN  /\ cache' = CacheSet(CacheSet(cache, r.key, entry), ToLowerCase(pl), entry)
      /\ view' = Rendered(pl, data)
      /\ history' = GeoAddToHistory(history, pl)
      /\ status' = Status("", "info")
      /\ loading' = FALSE
      /\ inflight' = inflight \ {r}

geoFrame == <<fetchSeq, isSearching, lastQueryKey, lastRenderAt, unit, env, last,
              lastCall, server, favs, timers, online, favBtn, favReqs>>

\* Lines 447-452 and 482-487: the previous fetch is aborted and a new one issued.
GeoIssueFetch(kind, key, statusText) ==
  /\ netCalls < MaxFetches
  /\ controller' = netCalls + 1
  /\ inflight' = AbortInflight(inflight)
                   \cup {[seq |-> netCalls + 1, key |-> key, aborted |-> FALSE,
                          kind |-> kind, phase |-> "headers", data |-> 0]}
  /\ netCalls' = netCalls + 1
  /\ loading' = TRUE
  /\ status' = Status(statusText, "info")
  /\ UNCHANGED <<cache, view, history>>

\* Lines 431-478 up to the await.
GeoSearchCity(city) ==
  LET key == NormalizeKey(city)
  IN  /\ key # NoKey
      /\ hasSearched' = TRUE
      /\ UNCHANGED geoFrame
      /\ geoLatest' = IF CacheHas(key) THEN "cache" ELSE "net"
      /\ IF CacheHas(key)
           THEN /\ cache' = CacheSet(cache, ToLowerCase(cache[key].place), cache[key])
                /\ view' = Rendered(cache[key].place, cache[key].data)
                /\ history' = GeoAddToHistory(history, cache[key].place)
                /\ status' = Status("", "info")
                /\ UNCHANGED <<controller, inflight, loading, netCalls>>
           ELSE GeoIssueFetch("city", key, "Buscando...")

\* Lines 480-492 up to the await.
GeoSearchByCoords(lat, lon) ==
  /\ hasSearched' = TRUE
  /\ geoLatest' = "net"
  /\ UNCHANGED geoFrame
  /\ GeoIssueFetch("coords", CoordsKey(lat, lon), "Buscando por ubicacion...")

\* Lines 644-647: the form is submitted.
GeoSubmit == Trim(input) # << >> /\ GeoSearchCity(input) /\ UNCHANGED input

\* Lines 267-272: a history button is clicked.
GeoHistoryClick ==
  \E i \in DOMAIN history : input' = history[i] /\ GeoSearchCity(history[i])

\* Line 609: the browser reports the position.
GeoLocate == \E p \in Positions : GeoSearchByCoords(p.lat, p.lon) /\ UNCHANGED input

\* Lines 106-108: the headers of the backend's answer arrive with a 2xx status.
GeoHeaders ==
  \E r \in inflight :
    /\ r.phase = "headers" /\ ~r.aborted
    /\ inflight' = (inflight \ {r}) \cup {[r EXCEPT !.phase = "body"]}
    /\ UNCHANGED <<cache, controller, view, status, loading, history, input, netCalls,
                   hasSearched, geoLatest, geoFrame>>

\* Lines 106-114: fetch rejects or the status is not ok while navigator.onLine
\* reads onLine; an aborted signal rejects the fetch with an AbortError.
GeoFetchThrows(onLine) ==
  \E r \in inflight, err \in FetchFailures \cup {AbortError} :
    /\ r.phase = "headers"
    /\ IF r.aborted THEN err = AbortError ELSE err \in FetchFailures
    /\ GeoCatch(r, GeoThrown(err, onLine))
    /\ UNCHANGED <<controller, input, netCalls, hasSearched, geoLatest, geoFrame>>

\* Line 109 and 452-468 / 488-505: res.json() settles outside fetchJSON's
\* try: an abort reaches the lookup as it is; a body is applied, except that
\* a position without a place name goes on to getPlaceFromCoords.
GeoBody ==
  \E r \in inflight, d \in Data, named \in BOOLEAN :
    /\ r.phase = "body"
    /\ UNCHANGED <<controller, input, netCalls, hasSearched, geoLatest, geoFrame>>
    /\ IF r.aborted
         THEN GeoCatch(r, AbortError)
         ELSE IF r.kind = "city"
         THEN GeoApply(r, Resolve(r.key), d)
         ELSE IF named
         THEN GeoApply(r, ParisName, d)
         ELSE /\ inflight' = (inflight \ {r}) \cup {[r EXCEPT !.phase = "place", !.data = d]}
              /\ UNCHANGED <<cache, view, status, loading, history>>

\* Lines 179-202 and 493-505: getPlaceFromCoords swallows every failure of
\* its two providers, an abort included, and ends with the coordinates.
GeoPlace ==
  \E r \in inflight, found \in BOOLEAN, p \in Positions :
    /\ r.phase = "place"
    /\ r.key = CoordsKey(p.lat, p.lon)
    /\ r.aborted => ~found
    /\ GeoApply(r, IF found THEN TokyoName ELSE CoordsPlace(p.lat, p.lon), r.data)
    /\ UNCHANGED <<controller, input, netCalls, hasSearched, geoLatest, geoFrame>>

GeoType == \E t \in RawInputs : Type(t)

GeoNext ==
  \/ GeoType
  \/ GeoSubmit
  \/ GeoHistoryClick
  \/ GeoLocate
  \/ GeoHeaders
  \/ \E onLine \in BOOLEAN : GeoFetchThrows(onLine)
  \/ GeoBody
  \/ GeoPlace

SpecGeo == Init /\ [][GeoNext]_vars

(* ------------------- the favorites store: src/server.js ------------------- *)
\* A row of the favorites table; NoRow is the undefined answer of db.get.
NoRow == [id |-> 0, city |-> Undefined, lat |-> Undefined, lon |-> Undefined, created_at |-> 0]

\* The bodies POST /favorites/toggle receives.
FavBodies ==
  { [city |-> Str(TokyoName), lat |-> Num(35676), lon |-> Num(139650)],
    [city |-> Str(ToLowerCase(TokyoName)), lat |-> Undefined, lon |-> Undefined],
    [city |-> Undefined, lat |-> Undefined, lon |-> Undefined] }

NoRes == [status |-> 0, added |-> FALSE, removed |-> FALSE, row |-> NoRow, error |-> ""]
\* A handler that has just received its request.
NewToggle(body) ==
  [pc |-> "idle", city |-> body.city, lat |-> body.lat, lon |-> body.lon,
   existing |-> 0, wrote |-> "none", res |-> NoRes]

\* db.get(`SELECT ... FROM favorites WHERE city = ?`, city)
SelectByCity(city) ==
  LET hits == {i \in DOMAIN favorites : favorites[i].city = city}
  IN  IF hits = {} THEN NoRow ELSE favorites[CHOOSE i \in hits : \A j \in hits : i <= j]

\* Variant: the DELETE removes nothing.
DeleteById_Nothing(id) == favorites

\* db.run(`DELETE FROM favorites WHERE id = ?`, id)
DeleteById(id) ==
  LET Keep(r) == r.id # id IN SelectSeq(favorites, Keep)

\* Variant: the city column has no UNIQUE constraint.
InsertOrIgnore_NoUnique(city, lat, lon) ==
  Append(favorites, [id |-> favSeq + 1, city |-> city,
                     lat |-> IF IsFinite(lat) THEN lat ELSE Undefined,
                     lon |-> IF IsFinite(lon) THEN lon ELSE Undefined,
                     created_at |-> favClock])

\* Lines 31-37 and 261-266: INSERT OR IGNORE under city TEXT UNIQUE, id
\* AUTOINCREMENT and created_at DEFAULT CURRENT_TIMESTAMP.
InsertOrIgnore(city, lat, lon) ==
  IF SelectByCity(city) # NoRow THEN favorites
  ELSE Append(favorites, [id |-> favSeq + 1, city |-> city,
                          lat |-> IF IsFinite(lat) THEN lat ELSE Undefined,
                          lon |-> IF IsFinite(lon) THEN lon ELSE Undefined,
                          created_at |-> favClock])

notFavs == <<prog, env, ghost, server, hasSearched, geoLatest, favBtn, favReqs, timers, online>>

\* res.status(code).json(body) of handler t.
FavSend(t, rec, body) ==
  /\ toggles' = [i \in DOMAIN toggles \cup {t} |->
                   IF i = t THEN [rec EXCEPT !.pc = "done", !.res = body] ELSE toggles[i]]
  /\ favLog' = Append(favLog, t)

DbError == [NoRes EXCEPT !.status = 500, !.error = "DB error"]

\* The handlers are numbered in the order of their arrival.
NextToggle == Len(toggles) + 1

\* Lines 248-256: the request arrives and its SELECT runs.
ToggleSelect(body, dbOk) ==
  /\ Len(toggles) < MaxToggles
  /\ LET t == NextToggle
         rec == NewToggle(body)
     IN  IF ~Boolean(body.city)
           THEN FavSend(t, rec, [NoRes EXCEPT !.status = 400, !.error = "Falta city"])
           ELSE IF ~dbOk
           THEN FavSend(t, rec, DbError)
           ELSE /\ toggles' = Append(toggles,
                                 [rec EXCEPT !.pc = "selected",
                                             !.existing = SelectByCity(body.city).id])
                /\ UNCHANGED favLog
  /\ UNCHANGED <<favorites, favSeq, favClock, favListed, notFavs>>

\* Lines 257-266: the DELETE of the row found, answered at once, or the
\* INSERT OR IGNORE.
ToggleWrite(t, dbOk) ==
  /\ toggles[t].pc = "selected"
  /\ UNCHANGED <<favClock, favListed, notFavs>>
  /\ LET rec == toggles[t]
     IN  IF ~dbOk
           THEN FavSend(t, rec, DbError) /\ UNCHANGED <<favorites, favSeq>>
           ELSE IF rec.existing # 0
           THEN /\ favorites' = DeleteById(rec.existing)
                /\ UNCHANGED favSeq
                /\ FavSend(t, [rec EXCEPT !.wrote = IF favorites' # favorites
                                                      THEN "deleted" ELSE "none"],
                           [NoRes EXCEPT !.status = 200, !.removed = TRUE])
           ELSE /\ favorites' = InsertOrIgnore(rec.city, rec.lat, rec.lon)
                /\ favSeq' = IF favorites' # favorites THEN favSeq + 1 ELSE favSeq
                /\ toggles' = [toggles EXCEPT ![t] =
                                 [rec EXCEPT !.pc = "inserted",
                                             !.existing = IF favorites' # favorites
                                                            THEN favSeq + 1 ELSE 0,
                                             !.wrote = IF favorites' # favorites
                                                         THEN "inserted" ELSE "none"]]
                /\ UNCHANGED favLog

\* Lines 267-268: the row is read back and sent with added: true.
ToggleReselect(t, dbOk) ==
  /\ toggles[t].pc = "inserted"
  /\ UNCHANGED <<favorites, favSeq, favClock, favListed, notFavs>>
  /\ IF ~dbOk
       THEN FavSend(t, toggles[t], DbError)
       ELSE FavSend(t, toggles[t],
                    [NoRes EXCEPT !.status = 200, !.added = TRUE,
                                  !.row = SelectByCity(toggles[t].city)])

\* ORDER BY created_at DESC: rows of the same second come in any order.
Listings ==
  LET n == Len(favorites)
      perms == {p \in [1..n -> 1..n] : \A i, j \in 1..n : i # j => p[i] # p[j]}
  IN  { [i \in 1..n |-> favorites[p[i]]] : p \in
          {q \in perms : \A i, j \in 1..n :
                           i < j => favorites[q[i]].created_at >= favorites[q[j]].created_at} }

\* Lines 235-245: GET /favorites.
FavList(dbOk) ==
  /\ IF dbOk
       THEN \E rows \in Listings : favListed' = [status |-> 200, rows |-> rows]
       ELSE favListed' = [status |-> 500, rows |-> << >>]
  /\ favListed' # favListed
  /\ UNCHANGED <<favorites, favSeq, favClock, toggles, favLog, notFavs>>

\* CURRENT_TIMESTAMP advances by a second.
FavTick ==
  /\ favClock < MaxFavClock
  /\ favClock' = favClock + 1
  /\ UNCHANGED <<favorites, favSeq, toggles, favLog, favListed, notFavs>>

\* No handler is between its first and its last statement.
Quiet == \A t \in DOMAIN toggles : toggles[t].pc = "done"

FavNext ==
  \/ \E body \in FavBodies, dbOk \in BOOLEAN : ToggleSelect(body, dbOk)
  \/ \E t \in DOMAIN toggles, dbOk \in BOOLEAN : ToggleWrite(t, dbOk)
  \/ \E t \in DOMAIN toggles, dbOk \in BOOLEAN : ToggleReselect(t, dbOk)
  \/ \E dbOk \in BOOLEAN : FavList(dbOk)
  \/ FavTick

SpecFav == Init /\ [][FavNext]_vars

\* The requests arrive one after the other: each is answered before the next.
FavSeqNext ==
  \/ \E body \in FavBodies, dbOk \in BOOLEAN : Quiet /\ ToggleSelect(body, dbOk)
  \/ \E t \in DOMAIN toggles, dbOk \in BOOLEAN : ToggleWrite(t, dbOk)
  \/ \E t \in DOMAIN toggles, dbOk \in BOOLEAN : ToggleReselect(t, dbOk)
  \/ \E dbOk \in BOOLEAN : FavList(dbOk)
  \/ FavTick

SpecFavSeq == Init /\ [][FavSeqNext]_vars

(* ------------- the favourite button of the page: src/main.js ------------- *)
\* Every variable but the button, its requests and the panels.
notBtn ==
  <<fetchSeq, isSearching, lastQueryKey, unit, cache, controller, inflight, status,
    loading, history, input, env, ghost, server, hasSearched, geoLatest, timers, online>>

\* Lines 147-153: applyFavVisual(isOn).
applyFavVisual(b, isOn) == [b EXCEPT !.isOn = isOn]

\* Lines 268-304: render(place, data) with its refresh of the button; the
\* list request of syncFavButton (lines 155-158) leaves with the place rendered.
BtnRender(place, d, hasLatLon, ok) ==
  /\ favBtn.syncs < MaxSyncs
  /\ view' = Rendered(place, d)
  /\ lastRenderAt' = IF ok THEN now ELSE lastRenderAt
  /\ favBtn' = [favBtn EXCEPT !.hidden = ~hasLatLon,
                              !.city = IF hasLatLon THEN place ELSE NoKey,
                              !.syncs = @ + 1]
  /\ favReqs' = favReqs \cup {[kind |-> "sync", n |-> favBtn.syncs + 1, place |-> place,
                               wasOn |-> FALSE, answered |-> FALSE, rows |-> << >>]}
  /\ UNCHANGED <<favs, notBtn>>

\* Lines 489-499: a click on the enabled, visible button; the POST leaves.
BtnClick ==
  /\ ~favBtn.disabled /\ ~favBtn.hidden
  /\ favBtn.city # NoKey
  /\ favBtn.clicks < MaxToggles
  /\ favBtn' = [applyFavVisual(favBtn, ~favBtn.isOn) EXCEPT !.disabled = TRUE,
                                                           !.clicks = @ + 1]
  /\ favReqs' = favReqs \cup {[kind |-> "toggle", n |-> Len(toggles) + 1,
                               place |-> favBtn.city, wasOn |-> favBtn.isOn,
                               answered |-> FALSE, rows |-> << >>]}
  /\ UNCHANGED <<view, lastRenderAt, favs, notBtn>>

\* The POST reaches the service: JSON.stringify({ city, lat, lon }) with
\* lat and lon parsed (lines 493-494) from the texts that render put in the
\* dataset (lines 284-285).
BtnArrive(dbOk) ==
  \E q \in favReqs :
    /\ q.kind = "toggle" /\ q.n = Len(toggles) + 1
    /\ ToggleSelect([city |-> Str(q.place), lat |-> Number(Str(ToFixed3(Num(35676)))),
                     lon |-> Number(Str(ToFixed3(Num(139650))))], dbOk)

\* Lines 501-515: the answer of the POST is read, whatever its status; the
\* finally enables the button.
BtnToggleAnswer ==
  \E q \in favReqs :
    /\ q.kind = "toggle" /\ q.n <= Len(toggles)
    /\ toggles[q.n].pc = "done"
    /\ LET resp == toggles[q.n].res
           isOn == IF resp.added THEN TRUE ELSE IF resp.removed THEN FALSE ELSE q.wasOn
       IN  favBtn' = [applyFavVisual(favBtn, isOn) EXCEPT !.disabled = FALSE]
    /\ favReqs' = favReqs \ {q}
    /\ UNCHANGED <<view, lastRenderAt, favs, notBtn>>

\* Lines 509-515: fetch or r.json() rejects; the visual is rolled back.  A
\* request lost before it reached the service does not reach it later.
BtnToggleFails ==
  \E q \in favReqs :
    /\ q.kind = "toggle"
    /\ q.n <= Len(toggles) + 1
    /\ favBtn' = [applyFavVisual(favBtn, q.wasOn) EXCEPT !.disabled = FALSE, !.lost = TRUE]
    /\ favReqs' = favReqs \ {q}
    /\ UNCHANGED <<view, lastRenderAt, favs, notBtn>>

\* GET /favorites answers a list request with the rows of the store.
SyncServe ==
  \E q \in favReqs, rows \in Listings :
    /\ q.kind = "sync" /\ ~q.answered
    /\ favReqs' = (favReqs \ {q}) \cup {[q EXCEPT !.answered = TRUE, !.rows = rows]}
    /\ UNCHANGED <<favBtn, view, lastRenderAt, favs, notBtn>>

\* Lines 158-162: the list arrives; the button shows whether it holds the
\* place the request was made for, compared without regard to case.
SyncAnswer ==
  \E q \in favReqs :
    /\ q.kind = "sync" /\ q.answered
    /\ favBtn' = applyFavVisual(favBtn,
                   \E i \in DOMAIN q.rows :
                     /\ q.rows[i].city.t = "str"
                     /\ ToLowerCase(q.rows[i].city.s) = ToLowerCase(q.place))
    /\ favReqs' = favReqs \ {q}
    /\ UNCHANGED <<view, lastRenderAt, favs, notBtn>>

\* Lines 163-165: the list request fails; the button is left as it is.
SyncFails ==
  \E q \in favReqs :
    /\ q.kind = "sync"
    /\ favReqs' = favReqs \ {q}
    /\ favBtn' = [favBtn EXCEPT !.lost = TRUE]
    /\ UNCHANGED <<view, lastRenderAt, favs, notBtn>>

BtnNext ==
  \/ \E place \in Places, hasLatLon \in BOOLEAN : BtnRender(place, 1, hasLatLon, TRUE)
  \/ BtnClick
  \/ \E dbOk \in BOOLEAN : BtnArrive(dbOk)
  \/ \E t \in DOMAIN toggles, dbOk \in BOOLEAN : ToggleWrite(t, dbOk)
  \/ \E t \in DOMAIN toggles, dbOk \in BOOLEAN : ToggleReselect(t, dbOk)
  \/ BtnToggleAnswer
  \/ BtnToggleFails
  \/ SyncServe
  \/ SyncAnswer
  \/ SyncFails

SpecBtn == Init /\ [][BtnNext]_vars

\* The page runs the continuation of every answer that has arrived; nothing
\* obliges the service or the network to answer.
SpecBtnLive ==
  /\ Init /\ [][BtnNext]_vars
  /\ WF_vars(BtnToggleAnswer)
  /\ WF_vars(SyncAnswer)

\* C12: a lookup whose network call was aborted because a newer lookup
\* superseded it sets no error status and does not hide the result panels,
\* whether the browser is online or offline when the abort is handled.
C12_AbortIsSilent ==
  [][\A r \in inflight :
       (r.aborted /\ r \notin inflight')
         => /\ status'.type = "error" => status' = status
            /\ view.shown => view'.shown
    ]_vars

(* ------------------ properties of the service --------------------- *)
Cands == Candidates(RawOf(req.city))

Primaries == {i \in DOMAIN calls : calls[i].provider = "primary"}

Fallbacks == {i \in DOMAIN calls : calls[i].provider = "fallback"}

Forecasts == {i \in DOMAIN calls : calls[i].provider = "forecast"}

Carries(r, g) ==
  r.body.place = g.place /\ r.body.lat = g.latitude /\ r.body.lon = g.longitude

\* C13: in GET /weather the primary geocoder is called with the candidates
\* in list order, one call at a time; after the first candidate that
\* returns a match no geocoder is called again, the forecaster is called
\* with that match's coordinates and the 200 response carries that match's
\* place and coordinates.
C13_CandidatesInOrder ==
  /\ \A i \in DOMAIN calls : i < Len(calls) => calls[i].state # "pending"
  /\ \A i \in Primaries :
       /\ i <= Len(Cands) /\ calls[i].q = Cands[i]
       /\ \A j \in 1..(i - 1) : calls[j].provider = "primary" /\ calls[j].state = "failed"
       /\ calls[i].state = "matched" =>
            /\ geo = calls[i].result
            /\ \A j \in DOMAIN calls :
                 j > i => /\ j = i + 1
                          /\ calls[j].provider = "forecast"
                          /\ calls[j].lat = calls[i].result.latitude
                          /\ calls[j].lon = calls[i].result.longitude
            /\ \A k \in DOMAIN res :
                 res[k].status = 200 => Carries(res[k], calls[i].result)

C13_Witness ==
  /\ Len(calls) = 4 /\ calls[3].provider = "primary" /\ calls[3].state = "matched"
  /\ calls[3].q = <<"S", "e">>
  /\ res # << >> /\ res[1].status = 200

\* C14 as stated: the fallback geocoder's query is the raw trimmed text.
C14_FallbackQueryIsRaw ==
  \A i \in Fallbacks : calls[i].q = RawOf(req.city)

\* C14 as the code has it: when every primary attempt failed the fallback
\* geocoder is called exactly once, with the trimmed text that precedes the
\* first comma (the second candidate); it is never called when a primary
\* attempt succeeded.
C14_FallbackOnceWithFirst ==
  /\ Cardinality(Fallbacks) <= 1
  /\ \A i \in Fallbacks :
       /\ calls[i].q = Trim(BeforeComma(RawOf(req.city)))
       /\ calls[i].q = Cands[2]
       /\ i = Len(Cands) + 1
       /\ \A j \in 1..(i - 1) : calls[j].provider = "primary" /\ calls[j].state = "failed"
  /\ (/\ req.route = "/weather"
      /\ Len(calls) >= Len(Cands)
      /\ \A j \in 1..Len(Cands) : calls[j].state = "failed")
       => Cardinality(Fallbacks) = 1

C14_Witness ==
  /\ Fallbacks # {}
  /\ \E i \in Fallbacks : calls[i].q = <<"P", "a">> /\ calls[i].q # RawOf(req.city)
  /\ pc = "done"

\* C15: when the primary geocoder failed for every candidate and the
\* fallback geocoder found a match, the handler goes on with the fallback's
\* place and coordinates and answers no 404; when the forecast succeeds the
\* 200 response carries the fallback's result.
C15_FallbackResultUsed ==
  \A i \in Fallbacks :
    calls[i].state = "matched" =>
      /\ geo = calls[i].result
      /\ \A k \in DOMAIN res : res[k].status # 404
      /\ Len(calls) = i + 1
      /\ calls[i + 1].provider = "forecast"
      /\ calls[i + 1].lat = calls[i].result.latitude
      /\ calls[i + 1].lon = calls[i].result.longitude
      /\ calls[i + 1].state = "settled" =>
           /\ Len(res) = 1 /\ res[1].status = 200
           /\ Carries(res[1], calls[i].result)

C15_Witness ==
  /\ \E i \in Fallbacks : calls[i].state = "matched" /\ calls[i].result.place = Str(TokyoName)
  /\ res # << >> /\ res[1].status = 200

\* C16: when the primary geocoder failed for every candidate and the
\* fallback failed too, the request is answered 404, the forecaster is not
\* called and no searches row is written.
C16_NotFound ==
  [][(/\ pc = "fallback"
      /\ pc' # "fallback"
      /\ calls'[Len(calls)].state = "failed")
       => (/\ pc' = "done"
           /\ Len(res') = 1 /\ res'[1].status = 404
           /\ calls' = [calls EXCEPT ![Len(calls)].state = "failed"]
           /\ {i \in DOMAIN calls' : calls'[i].provider = "forecast"} = {}
           /\ searches' = searches)
    ]_vars

C16_Witness ==
  /\ pc = "done" /\ Len(res) = 1 /\ res[1].status = 404
  /\ Fallbacks # {} /\ Len(calls) = 4 /\ searches # << >>

\* C17: in both routes, when the forecaster call fails or times out the
\* request is answered 500: no upstream call follows, no searches row is
\* written and no 200 body is sent.
C17_ForecastFailure ==
  [][(/\ pc = "forecast"
      /\ pc' # "forecast"
      /\ calls'[Len(calls)].state = "failed")
       => (/\ pc' = "done"
           /\ Len(res') = 1 /\ res'[1].status = 500
           /\ Len(calls') = Len(calls)
           /\ call' = NoPending
           /\ searches' = searches)
    ]_vars

C17_Witness ==
  /\ pc = "done" /\ Len(res) = 1 /\ res[1].status = 500
  /\ res[1].body.error = "timeout"
  /\ req.route = "/weather/coords"

\* C18: every upstream call made through fetchJSON settles, as a success
\* or a failure, within the fixed timeout.
C18_SettlesWithinTimeout ==
  call.phase # "none" => call.elapsed <= TimeoutMs

\* C19: in GET /weather/coords with finite coordinates a reverse-geocoder
\* error, timeout or empty result does not fail the request: the place is
\* the coordinates formatted to 2 decimals, and the answer is 200 or 500
\* according to the forecaster alone.
C19_ReverseFailureTolerated ==
  /\ [][(/\ pc = "reverse"
         /\ \/ TimerFires
            \/ FetchRejects
            \/ HeadersArrive(FALSE)
            \/ BodyArrives(FALSE)
            \/ Resume(Resolved([results |-> << >>])))
          => (/\ revPlace' = Str(<<"(", "-", "3", "4", ".", "6", "1", ",", " ",
                                   "1", ".", "2", "3", ")">>)
              /\ pc' = "forecast"
              /\ res' = << >>)
       ]_vars
  /\ [](req.route = "/weather/coords" /\ Forecasts # {}
          => \A i \in Forecasts :
               /\ calls[i].state = "settled" <=> (Len(res) = 1 /\ res[1].status = 200)
               /\ calls[i].state = "failed" <=> (Len(res) = 1 /\ res[1].status = 500)
               /\ calls[i].lat = Num(-34607) /\ calls[i].lon = Num(1234))

C19_Witness ==
  /\ req.route = "/weather/coords"
  /\ Len(res) = 1 /\ res[1].status = 200
  /\ res[1].body.place = Str(CoordsPlace(req.lat, req.lon))

\* C20: every 200 response of the two routes carries a non-empty place
\* string.
C20_PlaceNonEmpty ==
  \A k \in DOMAIN res :
    res[k].status = 200 => res[k].body.place.t = "str" /\ res[k].body.place.s # << >>

\* C21: GET /weather answers 400 exactly when city is missing or blank
\* after trimming (and then no upstream call is made), 404 exactly when no
\* geocoder of the chain found a match, 500 for every other failure and 200
\* otherwise; GET /weather/coords answers 400 exactly when lat or lon is
\* missing or not a finite number.
C21_StatusCodes ==
  /\ pc # "done" => res = << >>
  /\ pc = "done" =>
       /\ Len(res) = 1
       /\ res[1].status \in {200, 400, 404, 500}
       /\ res[1].status = 200 <=>
            (Forecasts # {} /\ \A i \in Forecasts : calls[i].state = "settled")
       /\ res[1].status = 500 <=>
            (Forecasts # {} /\ \A i \in Forecasts : calls[i].state = "failed")
       /\ res[1].status = 400 => calls = << >>
       /\ req.route = "/weather" =>
            /\ res[1].status = 400 <=> (req.city.t # "str" \/ Trim(req.city.s) = << >>)
            /\ res[1].status = 404 <=>
                 /\ Fallbacks # {}
                 /\ \A i \in Primaries \cup Fallbacks : calls[i].state = "failed"
       /\ req.route = "/weather/coords" =>
            /\ res[1].status # 404
            /\ res[1].status = 400 <=>
                 (req.lat.t # "str" \/ req.lon.t # "str" \/ req.lon.s = <<"x">>)

C21_Witness ==
  /\ pc = "done" /\ req.route = "/weather/coords"
  /\ req.lat.t = "str" /\ req.lon.s = <<"x">>
  /\ res[1].status = 400 /\ calls = << >>

\* C26: in GET /weather the candidate list is the raw trimmed text, then
\* the portion before the first comma only when the text has a comma, then
\* the accent-stripped form of that portion only when it differs; so a text
\* without comma and without accents is sent to the primary geocoder at
\* most once.
C26_CandidateList ==
  (req.route = "/weather" /\ calls # << >>) =>
    LET raw == Trim(req.city.s)
        head == Trim(BeforeComma(raw))
        plain == [i \in DOMAIN head |-> IF head[i] = "e'" THEN "e" ELSE head[i]]
        comma == \E i \in DOMAIN raw : raw[i] = ","
    IN  /\ Cands = <<raw>> \o (IF comma THEN <<head>> ELSE << >>)
                     \o (IF plain # head THEN <<plain>> ELSE << >>)
        /\ (~comma /\ plain = head) => Cardinality(Primaries) <= 1

(* ------------------- properties of the favorites store ------------------- *)
\* The handlers that toggled city c and answered, in the order they answered.
AnsweredFor(c) ==
  LET Of(t) == toggles[t].city = c IN SelectSeq(favLog, Of)

Present(c) == SelectByCity(c) # NoRow

FavCities == {b.city : b \in {x \in FavBodies : Boolean(x.city)}}

\* C22: when the requests run one after the other and none of them meets a
\* database error, the answers for a city c alternate, added first, then
\* removed, and so on; c is stored exactly after an odd number of them, so two
\* toggles of c from a store without c say added, then removed, and leave the
\* store without c. Only a row of exactly that city string counts.
C22_SequentialToggle ==
  \A c \in FavCities :
    LET done == AnsweredFor(c)
    IN  (Quiet /\ \A k \in DOMAIN done : toggles[done[k]].res.status = 200) =>
          /\ \A k \in DOMAIN done :
               /\ toggles[done[k]].res.added = (k % 2 = 1)
               /\ toggles[done[k]].res.removed = (k % 2 = 0)
          /\ Present(c) = (Len(done) % 2 = 1)

C22_Witness ==
  LET done == AnsweredFor(Str(TokyoName))
  IN  /\ Quiet /\ Len(done) = 2
      /\ toggles[done[1]].res.added /\ toggles[done[1]].res.status = 200
      /\ toggles[done[2]].res.removed /\ toggles[done[2]].res.status = 200
      /\ ~Present(Str(TokyoName))

\* C23: whatever the interleaving of the requests, once every toggle of a city
\* c that arrived has answered, none with a database error, c is stored exactly
\* when their number is odd (the store starts without c), the toggles that
\* answer added are exactly those that inserted a row, and the toggles that
\* answer removed are exactly those that deleted one.
C23_NoLostToggle ==
  \A c \in FavCities :
    LET done == AnsweredFor(c)
    IN  (/\ \A t \in DOMAIN toggles : toggles[t].city = c => toggles[t].pc = "done"
         /\ \A k \in DOMAIN done : toggles[done[k]].res.status = 200) =>
          /\ Present(c) = (Len(done) % 2 = 1)
          /\ \A k \in DOMAIN done :
               /\ toggles[done[k]].res.added = (toggles[done[k]].wrote = "inserted")
               /\ toggles[done[k]].res.removed = (toggles[done[k]].wrote = "deleted")

\* C24: whatever the interleaving of the requests, no two rows of the
\* favorites table hold the same city string.
C24_OneRowPerCity ==
  \A i, j \in DOMAIN favorites : favorites[i].city = favorites[j].city => i = j

C24_Witness ==
  /\ Len(toggles) = 2
  /\ \A t \in DOMAIN toggles :
       /\ toggles[t].city = Str(TokyoName)
       /\ toggles[t].pc \in {"inserted", "done"}
       /\ toggles[t].res.status \in {0, 200}
       /\ ~toggles[t].res.removed
  /\ Cardinality({i \in DOMAIN favorites : favorites[i].city = Str(TokyoName)}) = 1

\* C25: an answer of GET /favorites holds every stored row, and of two rows
\* the one inserted later (the one with the greater id) comes first.
C25_MostRecentFirst ==
  [][(favListed' # favListed /\ favListed'.status = 200) =>
       /\ {favListed'.rows[i] : i \in DOMAIN favListed'.rows}
            = {favorites[i] : i \in DOMAIN favorites}
       /\ Len(favListed'.rows) = Len(favorites)
       /\ \A i, j \in DOMAIN favListed'.rows :
            i < j => favListed'.rows[i].id > favListed'.rows[j].id
    ]_vars

(* ----------------- properties of the client, continued ----------------- *)
\* C27: when an admitted searchCity call ends by reporting an error, the
\* cache is what it was before the call, the epoch is the one the call took,
\* and the reentrancy guard is released, so that later lookups are admitted.
C27_ErrorLeavesCache ==
  [][(/\ last.result = "pending"
      /\ last'.result \in {"failed", "threw"}
      /\ status'.type = "error")
       => (cache' = cache /\ fetchSeq' = fetchSeq /\ ~isSearching')
    ]_vars

\* C28: a searchCity call that is dropped, for an empty or blank input, by
\* the debounce guard or by the reentrancy guard, changes nothing: the epoch,
\* the cache, lastQueryKey, the request in flight, the panels, the status,
\* the loader and the history are as before, and no network call is issued.
C28_DropChangesNothing ==
  [][(/\ lastCall' # lastCall
      /\ lastCall'.verdict \in {"empty", "debounced", "busy"})
       => /\ UNCHANGED <<fetchSeq, cache, lastQueryKey, inflight, view, status,
                         loading, history, netCalls>>
          /\ UNCHANGED <<isSearching, lastRenderAt, controller>>
    ]_vars

C28_Witness ==
  /\ lastCall.verdict = "busy" /\ lastCall.key # lastQueryKey
  /\ isSearching /\ inflight # {} /\ netCalls = 1
  /\ status = Status("Buscando...", "info") /\ loading

\* C29: a request of an admitted searchCity call is never pending for longer
\* than the timeout of fetchJSON, whether the server holds back the headers
\* or the body: the call has settled, and the guard is released, by then.
C29_SettlesWithinTimeout ==
  \A r \in inflight : TimerOf(r).elapsed <= TimeoutMs

(* ------------- properties of the geolocation revision, continued -------- *)
\* C30: a coordinate lookup whose fixed-precision key is in the cache issues
\* no network call (it is served from the cache), so that two consecutive
\* coordinate lookups of one key issue one network call at most.
C30_CoordsServedFromCache ==
  [][netCalls' # netCalls =>
       \A r \in inflight' : (r.seq = netCalls' /\ r.kind = "coords") => ~CacheHas(r.key)
    ]_vars

(* ------------- properties of the favorites store, continued ------------- *)
\* C34: whatever the interleaving of the requests, an answer with added: true
\* carries a row, the row is of the city toggled, and it is the row that the
\* answering request inserted.
C34_AddedCarriesOwnRow ==
  \A t \in DOMAIN toggles :
    (toggles[t].pc = "done" /\ toggles[t].res.added) =>
      /\ toggles[t].res.row # NoRow
      /\ toggles[t].res.row.city = toggles[t].city
      /\ toggles[t].wrote = "inserted"
      /\ toggles[t].res.row.id = toggles[t].existing

(* ----------------- properties of the client, continued ----------------- *)
\* C35: when a searchCity call passes the reentrancy guard, no network call
\* of an earlier lookup is outstanding: the abort at admission cancels no
\* live request.
C35_AbortFindsNothing ==
  [][fetchSeq' # fetchSeq => (inflight = {} /\ \A r \in inflight' : ~r.aborted)]_vars

C35_Witness ==
  /\ fetchSeq = 2 /\ netCalls = 2 /\ lastCall.verdict = "admitted"
  /\ \E r \in inflight : r.seq = 2 /\ ~r.aborted
  /\ isSearching

\* C37: a click on a unit button leaves the place shown by the panels as it
\* was, issues no network call, and leaves the cache, the epoch and the
\* reentrancy guard unchanged.
C37_UnitKeepsPlace ==
  [][unit' # unit =>
       /\ view'.shown = view.shown /\ view'.place = view.place
       /\ netCalls' = netCalls /\ inflight' = inflight
       /\ cache' = cache /\ fetchSeq' = fetchSeq /\ isSearching' = isSearching
    ]_vars

\* C38: whenever state.isSearching is false, the loader is off and the status
\* is not the in-progress message.
C38_IdleIsQuiet ==
  ~isSearching => (~loading /\ status.msg # "Buscando...")

C38_Witness ==
  /\ ~isSearching /\ fetchSeq = 1 /\ netCalls = 1 /\ inflight = {}
  /\ last.result = "failed" /\ status.type = "error" /\ ~loading

\* C33: no network call is issued while the browser is offline: offline is
\* detected before the fetch is attempted, not after it has failed.
C33_OfflineBeforeFetch ==
  [][netCalls' # netCalls => online]_vars

(* ------------- properties of the geolocation revision, continued -------- *)
\* The step applies the answer of request r: through GeoBody when r is not
\* aborted, through GeoPlace whether it is aborted or not.
GeoApplies(r) ==
  /\ r.phase = "place" \/ (r.phase = "body" /\ ~r.aborted)
  /\ \E pl \in {Resolve(r.key), ParisName, TokyoName}
                 \cup {CoordsPlace(p.lat, p.lon) : p \in Positions},
        d \in Data : GeoApply(r, pl, d)

\* C31: the answer of a request is applied (cached, rendered) only if no
\* newer lookup has started since the request was issued: the request was not
\* aborted by a later network lookup, and the lookup started last is not one
\* served from the cache.
C31_NoStaleRender ==
  [][\A r \in inflight : GeoApplies(r) => (~r.aborted /\ geoLatest # "cache")]_vars

\* C32: a lookup that ends with an error status after the panels were shown
\* leaves them shown.
C32_FailureKeepsPanels ==
  [][(view.shown /\ status'.type = "error") => view'.shown]_vars

(* ----------------- properties of the favourite button ------------------ *)
\* C36: when no favorites request of the page is outstanding, none of them
\* having failed, the button is on exactly when the place displayed is in
\* the favorites store, whatever the order in which the renders, the list
\* answers and the toggle answers came.
C36_ButtonMatchesStore ==
  (/\ favReqs = {} /\ Quiet /\ view.shown
   /\ ~favBtn.lost /\ \A t \in DOMAIN toggles : toggles[t].res.status = 200)
    => (favBtn.isOn = Present(Str(view.place)))

\* C39: the page never has two toggle requests outstanding, and a button
\* disabled by a click is enabled again in the end, whether the request
\* succeeds, fails or is never answered.
C39_ButtonReenabled ==
  /\ [](Cardinality({q \in favReqs : q.kind = "toggle"}) <= 1)
  /\ (favBtn.disabled ~> ~favBtn.disabled)

====
